---- MODULE Spec2Model ----
(***************************************************************************)
(* sendgrid-statistics-exporter: the Prometheus collector of               *)
(* cmd/sendgrid-exporter/main.go.  One scrape is one call of               *)
(* Collector.Collect: two calls of collectMetrics (HTTP GET, status        *)
(* switch, JSON decode), then the emission of the up gauge and of the      *)
(* labelled const metrics on the channel the registry reads.               *)
(***************************************************************************)
EXTENDS Integers, Sequences, FiniteSets, TLC

(***************************************************************************)
(* Bounds of the enumerated remote payloads.                               *)
(***************************************************************************)
MaxEnvelopes == 2
MaxRecords == 2

(***************************************************************************)
(* Go values.  A pointer or slice is Nil or Some(v); an error is NoErr     *)
(* (nil) or the message of the error.                                      *)
(***************************************************************************)
Nil == [nil |-> TRUE]
Some(v) == [nil |-> FALSE, val |-> v]
NoErr == "nil"

\* len(s) of a slice: 0 for the nil slice.
GoLen(s) == IF s.nil THEN 0 ELSE Len(s.val)

(***************************************************************************)
(* The Metrics struct: its sixteen int64 fields in declaration order, and  *)
(* the json tag of each.                                                   *)
(***************************************************************************)
Fields ==
  << "Blocks", "BounceDrops", "Bounces", "Clicks", "Deferred", "Delivered",
     "InvalidEmails", "Opens", "Processed", "Requests", "SpamReportDrops",
     "SpamReports", "UniqueClicks", "UniqueOpens", "UnsubscribeDrops",
     "Unsubscribes" >>

JsonTag ==
  [ Blocks |-> "blocks", BounceDrops |-> "bounce_drops", Bounces |-> "bounces",
    Clicks |-> "clicks", Deferred |-> "deferred", Delivered |-> "delivered",
    InvalidEmails |-> "invalid_emails", Opens |-> "opens",
    Processed |-> "processed", Requests |-> "requests",
    SpamReportDrops |-> "spam_report_drops", SpamReports |-> "spam_reports",
    UniqueClicks |-> "unique_clicks", UniqueOpens |-> "unique_opens",
    UnsubscribeDrops |-> "unsubscribe_drops", Unsubscribes |-> "unsubscribes" ]

(***************************************************************************)
(* The descriptors built by newCollector.                                  *)
(***************************************************************************)
namespace == "sendgrid"

\* prometheus.BuildFQName(namespace, "", name)
BuildFQName(ns, name) == ns \o "_" \o name

\* The gauge c.up: Namespace "sendgrid", Name "up", no labels.
upDesc == BuildFQName(namespace, "up")

\* The sixteen daily and the sixteen monthly descriptors, each in the order
\* Collect uses them; all carry the variable labels type, name.
DescNames ==
  [ monthly |->
      << "monthlyblocks", "monthlybounce_drops", "monthlybounces",
         "monthlyclicks", "monthlydeferred", "monthlydelivered",
         "monthlyinvalid_emails", "monthlyopens", "monthlyprocessed",
         "monthlyrequests", "monthlyspam_report_drops", "monthlyspam_reports",
         "monthlyunique_clicks", "monthlyunique_opens",
         "monthlyunsubscribe_drops", "monthlyunsubscribes" >>,
    daily |->
      << "dailyblocks", "dailybounce_drops", "dailybounces", "dailyclicks",
         "dailydeferred", "dailydelivered", "dailyinvalid_emails",
         "dailyopens", "dailyprocessed", "dailyrequests",
         "dailyspam_report_drops", "dailyspam_reports", "dailyunique_clicks",
         "dailyunique_opens", "dailyunsubscribe_drops", "dailyunsubscribes" >> ]

Desc(gran, i) == BuildFQName(namespace, DescNames[gran][i])

(***************************************************************************)
(* JSON payloads of the remote.  An object is a record whose DOMAIN is the *)
(* set of keys present in the payload; an array is a sequence.             *)
(***************************************************************************)
JNull == [null |-> TRUE]

\* A record with two counters present (the payload of the README's shape,
\* fourteen counters left out).
RecPartial ==
  [ name |-> "yahoo.com", type |-> "device",
    metrics |-> [opens |-> 10, clicks |-> 3] ]

\* A record with all sixteen counters present, all different.
RecFull ==
  [ name |-> "newsletter", type |-> "category",
    metrics |->
      [ blocks |-> 1, bounce_drops |-> 2, bounces |-> 3, clicks |-> 4,
        deferred |-> 5, delivered |-> 6, invalid_emails |-> 7, opens |-> 8,
        processed |-> 9, requests |-> 10, spam_report_drops |-> 11,
        spam_reports |-> 12, unique_clicks |-> 13, unique_opens |-> 14,
        unsubscribe_drops |-> 15, unsubscribes |-> 16 ] ]

\* A record whose metrics object is present and empty: "metrics": {}.
RecEmptyMetrics == [name |-> "Chrome", type |-> "browser", metrics |-> << >>]

\* A record with no "metrics" key at all.
RecNoMetrics == [name |-> "alice", type |-> "subuser"]

\* A record that only an envelope after the first carries.
RecLater ==
  [ name |-> "later", type |-> "category",
    metrics |-> [delivered |-> 7, requests |-> 9] ]

\* The elements of a "stats" array: the four records, and the JSON null.
JRecords == {RecPartial, RecFull, RecEmptyMetrics, RecNoMetrics, JNull}

\* The "stats" arrays: up to MaxRecords records, no record twice.
JStats ==
  UNION { { s \in [1..k -> JRecords] :
              \A i, j \in 1..k : i # j => s[i] # s[j] } : k \in 0..MaxRecords }

\* The envelopes a response starts with: "stats" present, "stats" absent,
\* and the JSON null.
JEnvelopes ==
  { [date |-> "2024-01-01", stats |-> s] : s \in JStats }
    \cup { [date |-> "2024-01-01"], JNull }

\* The envelope that follows the first one, when there is more than one.
LaterEnvelope == [date |-> "2024-01-02", stats |-> <<RecLater>>]

\* The arrays of envelopes: empty, or one envelope followed by up to
\* MaxEnvelopes - 1 later ones.
JArrays ==
  { << >> } \cup
  { <<e>> \o [i \in 1..k |-> LaterEnvelope] :
      e \in JEnvelopes, k \in 0..(MaxEnvelopes - 1) }

\* A response body: bytes that do not decode as the envelope shape, the
\* JSON null, or an array of envelopes.
InvalidBody == [kind |-> "invalid"]
NullBody == [kind |-> "null"]
ArrayBody(a) == [kind |-> "array", items |-> a]
Bodies == {InvalidBody, NullBody} \cup { ArrayBody(a) : a \in JArrays }

\* What http.DefaultClient.Do gives: a transport failure (no response), or
\* a response with a status code and a body.  A non-200 response carries a
\* body too (undecodable, or a well-formed array).
TransportFailure == [transport |-> "fail"]
HttpResponse(s, b) == [transport |-> "ok", status |-> s, body |-> b]
ErrorStatuses == {429, 500}
Responses ==
  {TransportFailure}
    \cup { HttpResponse(200, b) : b \in Bodies }
    \cup { HttpResponse(s, b) :
             s \in ErrorStatuses,
             b \in {InvalidBody, ArrayBody(<<[date |-> "2024-01-01", stats |-> <<RecFull>>]>>)} }

(***************************************************************************)
(* json.NewDecoder(r).Decode(&data) into []*Statistics.  A key absent from *)
(* the payload leaves the field at its zero value: 0 for an int64, "" for  *)
(* a string, nil for a pointer or a slice.                                 *)
(***************************************************************************)
FieldSet == { Fields[i] : i \in 1..Len(Fields) }

DecodeMetrics(jm) ==
  [ f \in FieldSet |-> IF JsonTag[f] \in DOMAIN jm THEN jm[JsonTag[f]] ELSE 0 ]

DecodeStat(js) ==
  [ Metrics |-> IF "metrics" \in DOMAIN js
                  THEN Some(DecodeMetrics(js.metrics)) ELSE Nil,
    Name |-> IF "name" \in DOMAIN js THEN js.name ELSE "",
    Type |-> IF "type" \in DOMAIN js THEN js.type ELSE "" ]

\* An element of Stats []*Stat: the JSON null decodes to the nil pointer.
DecodeStatPtr(js) == IF js = JNull THEN Nil ELSE Some(DecodeStat(js))

DecodeStatistics(je) ==
  [ Date |-> IF "date" \in DOMAIN je THEN je.date ELSE "",
    Stats |-> IF "stats" \in DOMAIN je
                THEN Some([ i \in 1..Len(je.stats) |->
                              DecodeStatPtr(je.stats[i]) ])
                ELSE Nil ]

\* An element of []*Statistics, likewise.
DecodeStatisticsPtr(je) ==
  IF je = JNull THEN Nil ELSE Some(DecodeStatistics(je))

\* The pair (data, err) the decoding ends collectMetrics with.
Decode(body) ==
  CASE body.kind = "invalid" -> [data |-> Nil, err |-> "json: cannot decode"]
    [] body.kind = "null" -> [data |-> Nil, err |-> NoErr]
    [] OTHER ->
         [ data |-> Some([ i \in 1..Len(body.items) |->
                             DecodeStatisticsPtr(body.items[i]) ]),
           err |-> NoErr ]

(***************************************************************************)
(* collectMetrics(aggregadedby): the request it builds, and the pair       *)
(* (data, err) it returns for what the client's Do gave.                   *)
(***************************************************************************)
NewRequest(aggregadedby) ==
  [ method |-> "GET", url |-> "https://api.sendgrid.com/v3/stats",
    aggregated_by |-> aggregadedby ]

\* A switch that lets the rate-limited response through to the decoder.
StatusOKOrTooMany(status) == status \in {200, 429}

\* The switch on res.StatusCode: does the function go on to decode?
StatusOK(status) == status = 200

StatusError(status) ==
  IF status = 429 THEN "ireached API rate limit" ELSE "invalid request"

collectMetrics(res) ==
  IF res.transport = "fail"
    THEN [data |-> Nil, err |-> "transport"]
    ELSE IF StatusOK(res.status)
           THEN Decode(res.body)
           ELSE [data |-> Nil, err |-> StatusError(res.status)]

(***************************************************************************)
(* Collector.Collect after its two fetches.  What goes on the channel:     *)
(* the gauge c.up itself (the registry reads its value when it writes the  *)
(* response), and const metrics, which carry their value.                  *)
(***************************************************************************)
UpMetric == [kind |-> "gauge", desc |-> upDesc]

\* prometheus.MustNewConstMetric(desc, GaugeValue, float64(v), s.Type, s.Name).
\* Every count of the payloads above is below 2^53, where float64(v) is v.
ConstMetric(gran, i, s) ==
  [ kind |-> "const", desc |-> Desc(gran, i),
    value |-> s.Metrics.val[Fields[i]], type |-> s.Type, name |-> s.Name ]

\* The body of one iteration of a range loop: sixteen sends.
EmitStat(gran, s) == [ i \in 1..Len(Fields) |-> ConstMetric(gran, i, s) ]

NoPanic == "none"
NilDeref == "invalid memory address or nil pointer dereference"
OutOfRange == "index out of range [0] with length 0"

\* for _, s := range stats { ... }, from the i-th element on: the metrics
\* sent, and the panic that ends the loop early (s.Metrics of a record
\* with no metrics is a nil pointer).
RECURSIVE RangeFrom(_, _, _)
RangeFrom(gran, stats, i) ==
  IF i > GoLen(stats)
    THEN [ch |-> << >>, panic |-> NoPanic]
    ELSE LET s == stats.val[i]
         IN  IF s.nil \/ s.val.Metrics.nil
               THEN [ch |-> << >>, panic |-> NilDeref]
               ELSE LET rest == RangeFrom(gran, stats, i + 1)
                    IN  [ ch |-> EmitStat(gran, s.val) \o rest.ch,
                          panic |-> rest.panic ]

\* A loop that ranges over the last envelope instead: data[len(data)-1].
LastEnvelopeIndex(data) == GoLen(data)

\* The envelope whose Stats a loop ranges over: data[0].
EnvelopeIndex(data) == 1

\* for _, s := range data[0].Stats { ... }
RangeStats(gran, data) ==
  IF GoLen(data) = 0
    THEN [ch |-> << >>, panic |-> OutOfRange]
    ELSE LET e == data.val[EnvelopeIndex(data)]
         IN  IF e.nil
               THEN [ch |-> << >>, panic |-> NilDeref]
               ELSE RangeFrom(gran, e.val.Stats, 1)

\* The early return of Collect: log, c.up.Set(0), ch <- c.up.
Down == [set |-> 0, ch |-> <<UpMetric>>, panic |-> NoPanic]

\* The two loops the other way round, the daily one first.
EmitLoopsDailyFirst(metrics, totalmetrics) ==
  LET m == RangeStats("monthly", totalmetrics)
      d == RangeStats("daily", metrics)
  IN  IF d.panic # NoPanic
        THEN d
        ELSE [ch |-> d.ch \o m.ch, panic |-> m.panic]

\* The two loops, the monthly one first.
EmitLoops(metrics, totalmetrics) ==
  LET m == RangeStats("monthly", totalmetrics)
      d == RangeStats("daily", metrics)
  IN  IF m.panic # NoPanic
        THEN m
        ELSE [ch |-> m.ch \o d.ch, panic |-> d.panic]

\* The guards without the one on err1.
GivesUpUnlessErr1(metrics, err, totalmetrics, err1) ==
  \/ err # NoErr
  \/ GoLen(metrics) = 0

\* Does Collect give up after the fetches?  The three guards, in order.
GivesUp(metrics, err, totalmetrics, err1) ==
  \/ err # NoErr
  \/ err1 # NoErr
  \/ GoLen(metrics) = 0

\* The value Collect sets c.up to, the items it sends, and the panic that
\* ends it, if any.
Collect(metrics, err, totalmetrics, err1) ==
  IF GivesUp(metrics, err, totalmetrics, err1)
    THEN Down
    ELSE LET l == EmitLoops(metrics, totalmetrics)
         IN  [set |-> 1, ch |-> <<UpMetric>> \o l.ch, panic |-> l.panic]

(***************************************************************************)
(* The state.  The collector is registered once (main) and shared by all   *)
(* scrapes; everything else is local to one call of Collect.               *)
(***************************************************************************)
VARIABLES
  up,            \* the value of the gauge c.up
  pc,            \* where each scrape is
  metrics,       \* metrics, err := collectMetrics("day")
  err,
  totalmetrics,  \* totalmetrics, err1 := collectMetrics("month")
  err1,
  net,           \* the HTTP traffic of each scrape's Collect call, in order
  ch,            \* what each scrape's Collect call has sent on ch, in order
  out,           \* the observations of each scrape's response, as written
  remote,        \* what the remote answers per aggregation, once determined
  prev           \* the response of the scrape before, the remote unchanged

vars ==
  << up, pc, metrics, err, totalmetrics, err1, net, ch, out, remote, prev >>

\* The scrapes the hosting server may have in flight.
Procs == {1, 2}

\* The hosting server hands the collector one scrape at a time.
Serial == {1}

Undetermined == [transport |-> "undetermined"]

\* A panic in Collect is recovered by nobody: the process is gone.
Alive == \A q \in Procs : pc[q] # "panicked"

Init ==
  /\ up = 0
  /\ pc = [p \in Procs |-> "idle"]
  /\ metrics = [p \in Procs |-> Nil]
  /\ err = [p \in Procs |-> NoErr]
  /\ totalmetrics = [p \in Procs |-> Nil]
  /\ err1 = [p \in Procs |-> NoErr]
  /\ net = [p \in Procs |-> << >>]
  /\ ch = [p \in Procs |-> << >>]
  /\ out = [p \in Procs |-> << >>]
  /\ remote = [day |-> Undetermined, month |-> Undetermined]
  /\ prev = Nil

\* Collect asking for the monthly aggregate first.
FirstCallMonth == "month"

\* The order of the two calls of collectMetrics in Collect.
FirstCall == "day"
SecondCall == "month"

Sent(by) == [ev |-> "send", req |-> NewRequest(by)]
Returned(by) == [ev |-> "return", aggregated_by |-> by]

\* What the remote answers: what it answered before, while it is unchanged.
Answers(by) ==
  IF remote[by] = Undetermined THEN Responses ELSE {remote[by]}

\* A scrape arrives: Collect calls collectMetrics(FirstCall), whose
\* http.DefaultClient.Do sends the request and blocks.
CallFirst(p) ==
  /\ Alive
  /\ pc[p] \in {"idle", "done"}
  /\ pc' = [pc EXCEPT ![p] = "waitFirst"]
  /\ net' = [net EXCEPT ![p] = <<Sent(FirstCall)>>]
  /\ ch' = [ch EXCEPT ![p] = << >>]
  /\ out' = [out EXCEPT ![p] = << >>]
  /\ metrics' = [metrics EXCEPT ![p] = Nil]
  /\ err' = [err EXCEPT ![p] = NoErr]
  /\ totalmetrics' = [totalmetrics EXCEPT ![p] = Nil]
  /\ err1' = [err1 EXCEPT ![p] = NoErr]
  /\ prev' = IF pc[p] = "done" THEN Some(out[p]) ELSE prev
  /\ UNCHANGED << up, remote >>

\* Do returns; collectMetrics switches on the status, decodes and returns.
ReturnFirst(p) ==
  /\ Alive
  /\ pc[p] = "waitFirst"
  /\ \E res \in Answers(FirstCall) :
       /\ remote' = [remote EXCEPT ![FirstCall] = res]
       /\ metrics' = [metrics EXCEPT ![p] = collectMetrics(res).data]
       /\ err' = [err EXCEPT ![p] = collectMetrics(res).err]
  /\ net' = [net EXCEPT ![p] = Append(@, Returned(FirstCall))]
  /\ pc' = [pc EXCEPT ![p] = "gotFirst"]
  /\ UNCHANGED << up, totalmetrics, err1, ch, out, prev >>

\* Collect calls collectMetrics(SecondCall).
CallSecond(p) ==
  /\ Alive
  /\ pc[p] = "gotFirst"
  /\ net' = [net EXCEPT ![p] = Append(@, Sent(SecondCall))]
  /\ pc' = [pc EXCEPT ![p] = "waitSecond"]
  /\ UNCHANGED << up, metrics, err, totalmetrics, err1, ch, out, remote, prev >>

ReturnSecond(p) ==
  /\ Alive
  /\ pc[p] = "waitSecond"
  /\ \E res \in Answers(SecondCall) :
       /\ remote' = [remote EXCEPT ![SecondCall] = res]
       /\ totalmetrics' = [totalmetrics EXCEPT ![p] = collectMetrics(res).data]
       /\ err1' = [err1 EXCEPT ![p] = collectMetrics(res).err]
  /\ net' = [net EXCEPT ![p] = Append(@, Returned(SecondCall))]
  /\ pc' = [pc EXCEPT ![p] = "fetched"]
  /\ UNCHANGED << up, metrics, err, ch, out, prev >>

\* c.up.Add(v) in the place of c.up.Set(v).
GaugeAdd(cur, v) == cur + v

\* c.up.Set(v)
GaugeSet(cur, v) == v

\* The rest of Collect: the guards, c.up.Set, the sends.  It returns, or it
\* panics and takes the process with it.
Emit(p) ==
  /\ Alive
  /\ pc[p] = "fetched"
  /\ LET c == Collect(metrics[p], err[p], totalmetrics[p], err1[p])
     IN  /\ up' = GaugeSet(up, c.set)
         /\ ch' = [ch EXCEPT ![p] = c.ch]
         /\ pc' = [pc EXCEPT ![p] =
                     IF c.panic = NoPanic THEN "returned" ELSE "panicked"]
  /\ UNCHANGED << metrics, err, totalmetrics, err1, net, out, remote, prev >>

\* The registry writes what it took from the channel into the response: a
\* const metric as sent, the gauge with the value it has by then.
Write(m) ==
  IF m.kind = "gauge" THEN [kind |-> "gauge", desc |-> m.desc, value |-> up]
  ELSE m

Gather(p) ==
  /\ Alive
  /\ pc[p] = "returned"
  /\ out' = [out EXCEPT ![p] = [i \in 1..Len(ch[p]) |-> Write(ch[p][i])]]
  /\ pc' = [pc EXCEPT ![p] = "done"]
  /\ UNCHANGED << up, metrics, err, totalmetrics, err1, net, ch, remote, prev >>

\* The remote's dataset changes between scrapes: its next answers are open
\* again.  Nothing of the scrapes served so far is kept but the gauge.
RemoteChange ==
  /\ Alive
  /\ \A q \in Procs : pc[q] \in {"idle", "done"}
  /\ \E q \in Procs : pc[q] = "done"
  /\ remote' = [day |-> Undetermined, month |-> Undetermined]
  /\ prev' = Nil
  /\ pc' = [q \in Procs |-> "idle"]
  /\ out' = [q \in Procs |-> << >>]
  /\ metrics' = [q \in Procs |-> Nil]
  /\ err' = [q \in Procs |-> NoErr]
  /\ totalmetrics' = [q \in Procs |-> Nil]
  /\ err1' = [q \in Procs |-> NoErr]
  /\ net' = [q \in Procs |-> << >>]
  /\ ch' = [q \in Procs |-> << >>]
  /\ UNCHANGED up

Scrape(p) ==
  \/ CallFirst(p)
  \/ ReturnFirst(p)
  \/ CallSecond(p)
  \/ ReturnSecond(p)
  \/ Emit(p)
  \/ Gather(p)

Next ==
  \/ \E p \in Serial : Scrape(p)
  \/ RemoteChange

Spec == Init /\ [][Next]_vars

(***************************************************************************)
(* Concurrent scrapes.  promhttp.Handler serves every request in its own   *)
(* goroutine and the registry calls Collect of the one registered          *)
(* collector for each of them, so two calls of Collect may interleave at   *)
(* every step; each has its own locals and channel, both share c.up.       *)
(* The remote answers every request on its own: it may start or stop       *)
(* rate limiting, the network may fail or recover, between any two.        *)
(***************************************************************************)
\* The answers of the remote in the concurrent runs.
ConcResponses ==
  { TransportFailure,
    HttpResponse(429, InvalidBody),
    HttpResponse(200, ArrayBody(<< >>)),
    HttpResponse(200,
      ArrayBody(<<[date |-> "2024-01-01", stats |-> <<RecPartial>>]>>)) }

InitConc ==
  /\ up = 0
  /\ pc = [p \in Procs |-> "idle"]
  /\ metrics = [p \in Procs |-> Nil]
  /\ err = [p \in Procs |-> NoErr]
  /\ totalmetrics = [p \in Procs |-> Nil]
  /\ err1 = [p \in Procs |-> NoErr]
  /\ net = [p \in Procs |-> << >>]
  /\ ch = [p \in Procs |-> << >>]
  /\ out = [p \in Procs |-> << >>]
  /\ remote \in [{FirstCall, SecondCall} -> ConcResponses]
  /\ prev = Nil

\* A scrape request arrives while others may be in flight.
Arrive(p) ==
  /\ pc[p] = "idle"
  /\ CallFirst(p)

\* What the remote answers to the next request of one aggregation changes.
RemoteTurns ==
  /\ Alive
  /\ \E by \in {FirstCall, SecondCall}, res \in ConcResponses :
       /\ res # remote[by]
       /\ remote' = [remote EXCEPT ![by] = res]
  /\ UNCHANGED << up, pc, metrics, err, totalmetrics, err1, net, ch, out, prev >>

NextConc ==
  \/ \E p \in Procs :
       \/ Arrive(p)
       \/ ReturnFirst(p)
       \/ CallSecond(p)
       \/ ReturnSecond(p)
       \/ Emit(p)
       \/ Gather(p)
  \/ RemoteTurns

SpecConc == InitConc /\ [][NextConc]_vars

(***************************************************************************)
(* Vocabulary of the properties below.                                     *)
(***************************************************************************)
\* Collect has ended: it returned (and the registry may have written the
\* response), or it panicked.
Returns(p) == pc[p] \in {"returned", "done"}
Ended(p) == Returns(p) \/ pc[p] = "panicked"
AfterFirst(p) == pc[p] \in {"gotFirst", "waitSecond", "fetched"} \/ Ended(p)
AfterSecond(p) == pc[p] = "fetched" \/ Ended(p)

\* The up gauge as the response shows it.
UpObservation(v) == [kind |-> "gauge", desc |-> "sendgrid_up", value |-> v]

\* The scrape returned, sent the up gauge and nothing else, and up is 0.
OnlyUpZero(p) ==
  /\ pc[p] # "panicked"
  /\ ch[p] = <<UpMetric>>
  /\ up = 0
  /\ pc[p] = "done" => out[p] = <<UpObservation(0)>>

\* The payload side: the envelopes of a 200 response with an array body,
\* and the records of the first of them.
Items(res) ==
  IF res.transport = "ok" /\ res.status = 200 /\ res.body.kind = "array"
    THEN res.body.items ELSE << >>

FirstStats(res) ==
  LET a == Items(res)
  IN  IF Len(a) > 0 /\ a[1] # JNull /\ "stats" \in DOMAIN a[1]
        THEN a[1].stats ELSE << >>

\* The sixteen counters in the order the README lists them.
CounterOrder ==
  << "blocks", "bounce_drops", "bounces", "clicks", "deferred", "delivered",
     "invalid_emails", "opens", "processed", "requests", "spam_report_drops",
     "spam_reports", "unique_clicks", "unique_opens", "unsubscribe_drops",
     "unsubscribes" >>

\* The count a record's payload gives a counter: 0 when it gives none.
JCount(js, c) ==
  IF "metrics" \in DOMAIN js /\ c \in DOMAIN js.metrics
    THEN js.metrics[c] ELSE 0

\* The k-th item (k >= 2) of a scrape that emits all monthly records and
\* then all daily records, sixteen counters each, from the payloads; no
\* item where the payloads have no record for it.
ExpectedAt(k) ==
  LET ms == FirstStats(remote.month)
      ds == FirstStats(remote.day)
      r == ((k - 2) \div 16) + 1
      i == ((k - 2) % 16) + 1
      gran == IF r <= Len(ms) THEN "monthly" ELSE "daily"
      js == IF r <= Len(ms) THEN ms[r]
            ELSE IF r <= Len(ms) + Len(ds) THEN ds[r - Len(ms)]
            ELSE JNull
  IN  IF js = JNull
        THEN [kind |-> "none"]
        ELSE [ kind |-> "const",
               desc |-> "sendgrid_" \o gran \o CounterOrder[i],
               value |-> JCount(js, CounterOrder[i]),
               type |-> js.type, name |-> js.name ]

ExpectedLen ==
  1 + 16 * (Len(FirstStats(remote.month)) + Len(FirstStats(remote.day)))

(***************************************************************************)
(* C1.  Fail-closed scrape: whenever the daily or the monthly fetch (or    *)
(* both) returned an error, Collect returns having sent the up gauge only, *)
(* with value 0, and no labelled gauge, whatever the other fetch returned. *)
(***************************************************************************)
C1_FailClosed ==
  \A p \in Procs :
    (Ended(p) /\ (err[p] # NoErr \/ err1[p] # NoErr)) => OnlyUpZero(p)

\* The monthly fetch failed after a daily fetch that brought records.
C1_Witness ==
  /\ pc[1] = "done"
  /\ err[1] = NoErr
  /\ err1[1] # NoErr
  /\ Len(FirstStats(remote.day)) > 0
  /\ out[1] = <<UpObservation(0)>>

(***************************************************************************)
(* C2.  If both fetches succeed and the daily result has no records (no    *)
(* envelope, or a first envelope whose stats list is empty or absent),     *)
(* Collect sends only the up gauge, with value 0, whatever the monthly     *)
(* result holds.  Stated of the calls of Collect that return.              *)
(***************************************************************************)
DailyHasNoRecords(p) ==
  \/ GoLen(metrics[p]) = 0
  \/ /\ ~metrics[p].val[1].nil
     /\ GoLen(metrics[p].val[1].val.Stats) = 0

C2_EmptyDailyIsDown ==
  \A p \in Procs :
    (Returns(p) /\ err[p] = NoErr /\ err1[p] = NoErr /\ DailyHasNoRecords(p))
      => OnlyUpZero(p)

(***************************************************************************)
(* C3.  A monthly fetch that returns 200 with an empty array of envelopes, *)
(* next to a daily fetch that brought at least one envelope, is handled    *)
(* like a fetch error: Collect returns, up is 0, no labelled gauge.        *)
(***************************************************************************)
C3_EmptyMonthlyIsDown ==
  \A p \in Procs :
    ( /\ Ended(p)
      /\ err[p] = NoErr /\ err1[p] = NoErr
      /\ GoLen(metrics[p]) > 0
      /\ totalmetrics[p] = Some(<< >>) )
      => OnlyUpZero(p)

(***************************************************************************)
(* C4.  When both fetches succeed with non-empty results, up is 1 and      *)
(* every record of the monthly and of the daily first envelope gets        *)
(* exactly sixteen observations, one per counter, carrying the record's    *)
(* count for the counter and its type and name: 1 + 16 * (monthly records  *)
(* + daily records) items in all.                                          *)
(***************************************************************************)
\* A result with a first envelope, all of whose stats are records.
HasRecords(data) ==
  /\ GoLen(data) > 0
  /\ ~data.val[1].nil
  /\ \A r \in 1..GoLen(data.val[1].val.Stats) :
       ~data.val[1].val.Stats.val[r].nil

Recs(data) ==
  IF data.val[1].val.Stats.nil THEN << >> ELSE data.val[1].val.Stats.val

\* The sixteen items from offset o on are those of the record s.
SixteenOf(p, o, gran, s) ==
  \A i \in 1..16 :
    /\ ch[p][o + i].kind = "const"
    /\ ch[p][o + i].desc = "sendgrid_" \o gran \o CounterOrder[i]
    /\ ch[p][o + i].value = s.Metrics.val[Fields[i]]
    /\ ch[p][o + i].type = s.Type
    /\ ch[p][o + i].name = s.Name

C4_SuccessEmitsAll ==
  \A p \in Procs :
    ( /\ Ended(p)
      /\ err[p] = NoErr /\ err1[p] = NoErr
      /\ HasRecords(metrics[p]) /\ HasRecords(totalmetrics[p]) )
      => LET ms == Recs(totalmetrics[p])
             ds == Recs(metrics[p])
         IN  /\ pc[p] # "panicked"
             /\ up = 1
             /\ ch[p][1] = UpMetric
             /\ Len(ch[p]) = 1 + 16 * (Len(ms) + Len(ds))
             /\ \A r \in 1..Len(ms) :
                  SixteenOf(p, 1 + 16 * (r - 1), "monthly", ms[r].val)
             /\ \A r \in 1..Len(ds) :
                  SixteenOf(p, 1 + 16 * (Len(ms) + r - 1), "daily", ds[r].val)

(***************************************************************************)
(* C5.  Whatever counters a record's payload leaves out, one of them or    *)
(* all sixteen, the fetch does not fail, the scrape succeeds, and the      *)
(* record's absent counters are emitted as 0 while the present ones keep   *)
(* the payload's values.                                                   *)
(***************************************************************************)
\* A 200 response whose body is an array starting with an envelope object,
\* all of whose stats are record objects.
WellFormed(res) ==
  /\ Len(Items(res)) > 0
  /\ Items(res)[1] # JNull
  /\ \A r \in 1..Len(FirstStats(res)) : FirstStats(res)[r] # JNull

C5_AbsentCountersAreZero ==
  \A p \in Procs :
    /\ (AfterFirst(p) /\ WellFormed(remote.day)) => err[p] = NoErr
    /\ (AfterSecond(p) /\ WellFormed(remote.month)) => err1[p] = NoErr
    /\ (Ended(p) /\ WellFormed(remote.day) /\ WellFormed(remote.month))
         => /\ pc[p] # "panicked"
            /\ up = 1
            /\ Len(ch[p]) = ExpectedLen
            /\ \A k \in 2..Len(ch[p]) : ch[p][k] = ExpectedAt(k)

(***************************************************************************)
(* C6.  A fetch returns envelopes if and only if a response came with      *)
(* status 200 and a body that decodes; a transport failure, a 429, another *)
(* non-200 status and an undecodable 200 body each return an error and no  *)
(* data, and Collect answers all of them the same way: only up, at 0.      *)
(***************************************************************************)
FetchOk(res) ==
  res.transport = "ok" /\ res.status = 200 /\ res.body.kind # "invalid"

FetchContract(res, data, e) ==
  /\ (e = NoErr) <=> FetchOk(res)
  /\ e # NoErr => data = Nil
  /\ e = NoErr => GoLen(data) = Len(Items(res))

C6_FetchOkIffDecoded200 ==
  \A p \in Procs :
    /\ AfterFirst(p) => FetchContract(remote.day, metrics[p], err[p])
    /\ AfterSecond(p) => FetchContract(remote.month, totalmetrics[p], err1[p])
    /\ (Ended(p) /\ ~(FetchOk(remote.day) /\ FetchOk(remote.month)))
         => OnlyUpZero(p)

\* A 429 with a well-formed body, then a 200 with a body that does not
\* decode: two kinds of error, one answer.
C6_Witness ==
  /\ pc[1] = "done"
  /\ remote.day.transport = "ok"
  /\ remote.day.status = 429
  /\ remote.day.body.kind = "array"
  /\ remote.month = HttpResponse(200, InvalidBody)
  /\ out[1] = <<UpObservation(0)>>

(***************************************************************************)
(* C7.  Idempotence: a scrape that follows another with the remote's       *)
(* answers unchanged writes the same observations, in the same order, as   *)
(* the one before: same up, same names, labels and values.                 *)
(***************************************************************************)
C7_Idempotent ==
  \A p \in Procs : (pc[p] = "done" /\ ~prev.nil) => out[p] = prev.val

\* A second successful scrape, with labelled gauges in it.
C7_Witness ==
  /\ pc[1] = "done"
  /\ ~prev.nil
  /\ Len(out[1]) > 16
  /\ out[1][1] = UpObservation(1)

(***************************************************************************)
(* C8.  Every Collect call issues exactly two GETs: aggregated_by=day,     *)
(* and, once that one has returned, aggregated_by=month; neither is sent   *)
(* again, whatever the two outcomes are.                                   *)
(***************************************************************************)
Get(by) ==
  [ ev |-> "send",
    req |-> [ method |-> "GET", url |-> "https://api.sendgrid.com/v3/stats",
              aggregated_by |-> by ] ]

Traffic ==
  << Get("day"), [ev |-> "return", aggregated_by |-> "day"],
     Get("month"), [ev |-> "return", aggregated_by |-> "month"] >>

C8_TwoGetsDayThenMonth ==
  \A p \in Procs :
    /\ Len(net[p]) <= Len(Traffic)
    /\ net[p] = SubSeq(Traffic, 1, Len(net[p]))
    /\ Ended(p) => net[p] = Traffic

\* A scrape whose first fetch failed has still made both requests, once.
C8_Witness ==
  /\ pc[1] = "done"
  /\ err[1] # NoErr
  /\ net[1] = Traffic

(***************************************************************************)
(* C9.  Emission order of a scrape that sets up to 1: the up gauge first,  *)
(* then the monthly records in payload order, then the daily records in    *)
(* payload order, the sixteen counters of a record always in the same      *)
(* order; when Collect returns, that is all of them and nothing else.      *)
(***************************************************************************)
SetsUp(p) == err[p] = NoErr /\ err1[p] = NoErr /\ GoLen(metrics[p]) > 0

C9_EmissionOrder ==
  \A p \in Procs :
    (Ended(p) /\ SetsUp(p))
      => /\ ch[p][1] = UpMetric
         /\ \A k \in 2..Len(ch[p]) : ch[p][k] = ExpectedAt(k)
         /\ pc[p] # "panicked" => Len(ch[p]) = ExpectedLen

\* Two monthly records and a daily one, all emitted.
C9_Witness ==
  /\ pc[1] = "done"
  /\ Len(FirstStats(remote.month)) >= 2
  /\ Len(FirstStats(remote.day)) >= 1
  /\ FirstStats(remote.month)[1] # FirstStats(remote.day)[1]
  /\ Len(out[1]) = ExpectedLen

(***************************************************************************)
(* C10.  Only the first envelope of a result is consumed: no record of a   *)
(* later envelope is emitted, and Collect sets up and sends exactly what   *)
(* it does for the results cut down to their first envelope.               *)
(***************************************************************************)
FirstOnly(data) == IF GoLen(data) > 1 THEN Some(<<data.val[1]>>) ELSE data

C10_OnlyFirstEnvelope ==
  \A p \in Procs :
    Ended(p)
      => LET c == Collect(FirstOnly(metrics[p]), err[p],
                          FirstOnly(totalmetrics[p]), err1[p])
         IN  /\ ch[p] = c.ch
             /\ up = c.set
             /\ (pc[p] = "panicked") <=> (c.panic # NoPanic)
             /\ \A k \in 2..Len(ch[p]) :
                  <<ch[p][k].type, ch[p][k].name>>
                    # <<RecLater.type, RecLater.name>>

\* Both results carry a later envelope, and the scrape emitted records.
C10_Witness ==
  /\ pc[1] = "done"
  /\ Len(Items(remote.day)) > 1
  /\ Len(Items(remote.month)) > 1
  /\ Len(out[1]) > 1

(***************************************************************************)
(* C11.  Under every interleaving of two concurrent Collect calls, the up  *)
(* value a scrape's response shows depends on that scrape's own fetches    *)
(* only: 1 if and only if its own two fetches succeeded with data.  A      *)
(* failed scrape never shows up = 1 next to no metrics, a successful one   *)
(* never up = 0 next to its metrics.                                       *)
(***************************************************************************)
OwnFetchesBroughtData(p) ==
  /\ err[p] = NoErr /\ err1[p] = NoErr
  /\ GoLen(metrics[p]) > 0 /\ GoLen(totalmetrics[p]) > 0

C11_UpIsTheScrapesOwn ==
  \A p \in Procs :
    pc[p] = "done"
      => /\ out[p][1] = UpObservation(IF OwnFetchesBroughtData(p) THEN 1 ELSE 0)
         /\ Len(out[p]) = 1 => out[p][1].value = 0
         /\ Len(out[p]) > 1 => out[p][1].value = 1

====
